---- MODULE Spec2Model ----
(***************************************************************************)
(* Model of pydantic_settings_sources: the YAML and TOML settings sources  *)
(* (sources.py), the deep merge they apply to the files of a directory and *)
(* the environment-variable substitution run on the merged tree.           *)
(*                                                                         *)
(* Text (file names, string scalars, variable names and values) is a       *)
(* sequence of one-character strings, so that scanning, suffix tests,      *)
(* sorting and literal parsing are computed and not assumed.               *)
(***************************************************************************)
EXTENDS Integers, Sequences, FiniteSets, TLC

(***************************************************************************)
(* Characters                                                              *)
(***************************************************************************)
UpperLetters == <<"A","B","C","D","E","F","G","H","I","J","K","L","M",
                  "N","O","P","Q","R","S","T","U","V","W","X","Y","Z">>
LowerLetters == <<"a","b","c","d","e","f","g","h","i","j","k","l","m",
                  "n","o","p","q","r","s","t","u","v","w","x","y","z">>
Digits == <<"0","1","2","3","4","5","6","7","8","9">>

IsUpper(c) == \E i \in 1..26 : UpperLetters[i] = c
IsLower(c) == \E i \in 1..26 : LowerLetters[i] = c
IsDigit(c) == \E i \in 1..10 : Digits[i] = c
DigitVal(c) == (CHOOSE i \in 1..10 : Digits[i] = c) - 1

\* str.lower() on one character
LowerChar(c) ==
    IF IsUpper(c) THEN LowerLetters[CHOOSE i \in 1..26 : UpperLetters[i] = c] ELSE c
LowerText(s) == [i \in 1..Len(s) |-> LowerChar(s[i])]

\* ord(): the code point, which is what sorted() compares strings by
Ord(c) ==
    IF IsDigit(c) THEN 48 + DigitVal(c)
    ELSE IF IsUpper(c) THEN 64 + (CHOOSE i \in 1..26 : UpperLetters[i] = c)
    ELSE IF IsLower(c) THEN 96 + (CHOOSE i \in 1..26 : LowerLetters[i] = c)
    ELSE IF c = "." THEN 46
    ELSE IF c = "-" THEN 45
    ELSE IF c = "_" THEN 95
    ELSE 0

\* s[i..j] as a sequence (empty when j < i)
Slice(s, i, j) == IF j < i THEN <<>> ELSE SubSeq(s, i, j)

\* str.endswith(suffix)
EndsWith(s, suffix) ==
    /\ Len(suffix) <= Len(s)
    /\ Slice(s, Len(s) - Len(suffix) + 1, Len(s)) = suffix

\* the order of Python's str comparison: first differing code point, then length
StrLess(a, b) ==
    \/ \E i \in 1..Len(a) :
          /\ i <= Len(b)
          /\ \A j \in 1..(i - 1) : a[j] = b[j]
          /\ Ord(a[i]) < Ord(b[i])
    \/ /\ Len(a) < Len(b)
       /\ \A j \in 1..Len(a) : a[j] = b[j]

(***************************************************************************)
(* ConfigTree: a mapping, a sequence or a scalar, tagged by its kind        *)
(***************************************************************************)
TMap(f)   == [kind |-> "map",   val |-> f]
TSeq(s)   == [kind |-> "seq",   val |-> s]
TStr(s)   == [kind |-> "str",   val |-> s]
TInt(n)   == [kind |-> "int",   val |-> n]
\* a float is kept exactly: mantissa and number of decimal places
TFloat(m, d) == [kind |-> "float", val |-> <<m, d>>]
TBool(b)  == [kind |-> "bool",  val |-> b]
TNull     == [kind |-> "null",  val |-> <<>>]
EmptyMap  == TMap(<<>>)

IsMap(t) == t.kind = "map"
IsList(t) == t.kind = "seq"

\* Python truthiness of a parsed document, as used by `... or {}`
Falsy(t) ==
    CASE t.kind = "null"  -> TRUE
      [] t.kind = "bool"  -> t.val = FALSE
      [] t.kind = "int"   -> t.val = 0
      [] t.kind = "float" -> t.val[1] = 0
      [] t.kind = "str"   -> t.val = <<>>
      [] t.kind = "seq"   -> t.val = <<>>
      [] t.kind = "map"   -> DOMAIN t.val = {}
      [] OTHER            -> FALSE

(***************************************************************************)
(* deepmerge.always_merger.merge(base, nxt): dict x dict merges by key,     *)
(* list x list appends, anything else is overridden by nxt.  The value is   *)
(* what merge() returns.                                                    *)
(***************************************************************************)
\* DeepMerge whose list strategy is base.append(nxt): the later list is added
\* as one element
RECURSIVE DeepMergeListNested(_, _)
DeepMergeListNested(base, nxt) ==
    IF IsMap(base) /\ IsMap(nxt)
    THEN TMap([k \in (DOMAIN base.val) \cup (DOMAIN nxt.val) |->
                IF k \notin DOMAIN nxt.val THEN base.val[k]
                ELSE IF k \notin DOMAIN base.val THEN nxt.val[k]
                ELSE DeepMergeListNested(base.val[k], nxt.val[k])])
    ELSE IF IsList(base) /\ IsList(nxt)
    THEN TSeq(Append(base.val, nxt))
    ELSE nxt

\* DeepMerge with the list strategy "override": a later list replaces the earlier
RECURSIVE DeepMergeListOverride(_, _)
DeepMergeListOverride(base, nxt) ==
    IF IsMap(base) /\ IsMap(nxt)
    THEN TMap([k \in (DOMAIN base.val) \cup (DOMAIN nxt.val) |->
                IF k \notin DOMAIN nxt.val THEN base.val[k]
                ELSE IF k \notin DOMAIN base.val THEN nxt.val[k]
                ELSE DeepMergeListOverride(base.val[k], nxt.val[k])])
    ELSE nxt

RECURSIVE DeepMerge(_, _)
DeepMerge(base, nxt) ==
    IF IsMap(base) /\ IsMap(nxt)
    THEN TMap([k \in (DOMAIN base.val) \cup (DOMAIN nxt.val) |->
                IF k \notin DOMAIN nxt.val THEN base.val[k]
                ELSE IF k \notin DOMAIN base.val THEN nxt.val[k]
                ELSE DeepMerge(base.val[k], nxt.val[k])])
    ELSE IF IsList(base) /\ IsList(nxt)
    THEN TSeq(base.val \o nxt.val)
    ELSE nxt

(***************************************************************************)
(* Substitution engine (deep_substitute_env_vars): the reference grammar    *)
(* ${NAME} / ${NAME:-DEFAULT}, scanned left to right over a string scalar.  *)
(***************************************************************************)
IsNameChar(c) == IsUpper(c) \/ IsLower(c) \/ IsDigit(c) \/ c = "_"

\* first index >= i of s that holds no name character (Len(s) + 1 if none)
RECURSIVE NameEnd(_, _)
NameEnd(s, i) ==
    IF i > Len(s) THEN i
    ELSE IF IsNameChar(s[i]) THEN NameEnd(s, i + 1)
    ELSE i

\* first index >= i of s that holds "}" (0 if none)
RECURSIVE CloseAt(_, _)
CloseAt(s, i) ==
    IF i > Len(s) THEN 0
    ELSE IF s[i] = "}" THEN i
    ELSE CloseAt(s, i + 1)

NoMatch == [ok |-> FALSE, start |-> 0, end |-> 0, name |-> <<>>,
            hasDefault |-> FALSE, default |-> <<>>]

\* the reference that starts at index i of s, if one does
MatchAt(s, i) ==
    IF ~(i + 1 <= Len(s) /\ s[i] = "$" /\ s[i + 1] = "{") THEN NoMatch
    ELSE LET j == NameEnd(s, i + 2) IN
         IF j = i + 2 \/ j > Len(s) THEN NoMatch
         ELSE IF s[j] = "}"
         THEN [ok |-> TRUE, start |-> i, end |-> j, name |-> Slice(s, i + 2, j - 1),
               hasDefault |-> FALSE, default |-> <<>>]
         ELSE IF s[j] = ":" /\ j + 1 <= Len(s) /\ s[j + 1] = "-"
                 /\ CloseAt(s, j + 2) # 0
         THEN LET k == CloseAt(s, j + 2) IN
              [ok |-> TRUE, start |-> i, end |-> k, name |-> Slice(s, i + 2, j - 1),
               hasDefault |-> TRUE, default |-> Slice(s, j + 2, k - 1)]
         ELSE NoMatch

\* all reference occurrences of s from index i on, leftmost first, not overlapping
RECURSIVE Scan(_, _)
Scan(s, i) ==
    IF i > Len(s) THEN <<>>
    ELSE LET m == MatchAt(s, i) IN
         IF m.ok THEN <<m>> \o Scan(s, m.end + 1)
         ELSE Scan(s, i + 1)

Occurrences(s) == Scan(s, 1)
HasReference(s) == Occurrences(s) # <<>>

\* the environment lookup: os.environ as a function from names to values
IsSet(e, name) == name \in DOMAIN e

\* the text one occurrence is replaced by (the default when the name is absent)
Replacement(o, e) == IF IsSet(e, o.name) THEN e[o.name] ELSE o.default

\* an occurrence that has no default and whose name is absent
IsMissing(o, e) == ~IsSet(e, o.name) /\ ~o.hasDefault

\* s with every occurrence replaced, as plain string concatenation
RECURSIVE Expand(_, _, _, _)
Expand(s, occ, n, e) ==
    IF n > Len(occ) THEN
        Slice(s, (IF occ = <<>> THEN 1 ELSE occ[Len(occ)].end + 1), Len(s))
    ELSE
        Slice(s, (IF n = 1 THEN 1 ELSE occ[n - 1].end + 1), occ[n].start - 1)
          \o Replacement(occ[n], e) \o Expand(s, occ, n + 1, e)

(***************************************************************************)
(* Natural-type inference of a substituted whole-value reference           *)
(***************************************************************************)
AllDigits(s) == s # <<>> /\ \A i \in 1..Len(s) : IsDigit(s[i])

RECURSIVE DigitsValue(_)
DigitsValue(s) ==
    IF s = <<>> THEN 0
    ELSE 10 * DigitsValue(Slice(s, 1, Len(s) - 1)) + DigitVal(s[Len(s)])

HasSign(s) == s # <<>> /\ s[1] \in {"-", "+"}
Unsigned(s) == IF HasSign(s) THEN Slice(s, 2, Len(s)) ELSE s
SignOf(s) == IF s # <<>> /\ s[1] = "-" THEN -1 ELSE 1

IsIntLiteral(s) == AllDigits(Unsigned(s))

\* index of the only "." of s (0 when there is none or more than one)
DotAt(s) ==
    IF Cardinality({i \in 1..Len(s) : s[i] = "."}) = 1
    THEN CHOOSE i \in 1..Len(s) : s[i] = "."
    ELSE 0

IsFloatLiteral(s) ==
    LET u == Unsigned(s) IN
    /\ DotAt(u) # 0
    /\ AllDigits(Slice(u, 1, DotAt(u) - 1))
    /\ AllDigits(Slice(u, DotAt(u) + 1, Len(u)))

\* the same number written with fewer decimal places when it ends in zeros
RECURSIVE NormFloat(_, _)
NormFloat(m, d) ==
    IF d > 0 /\ m % 10 = 0 THEN NormFloat(m \div 10, d - 1) ELSE TFloat(m, d)

FloatValue(s) ==
    LET u == Unsigned(s)
        ip == Slice(u, 1, DotAt(u) - 1)
        fp == Slice(u, DotAt(u) + 1, Len(u))
    IN  IF SignOf(s) = 1
        THEN NormFloat(DigitsValue(ip \o fp), Len(fp))
        ELSE NormFloat(0 - DigitsValue(ip \o fp), Len(fp))

\* str.strip() of blanks
RECURSIVE Strip(_)
Strip(s) ==
    IF s # <<>> /\ s[1] = " " THEN Strip(Slice(s, 2, Len(s)))
    ELSE IF s # <<>> /\ s[Len(s)] = " " THEN Strip(Slice(s, 1, Len(s) - 1))
    ELSE s

\* a scalar literal: booleans, null, numbers; anything else stays text
ScalarType(s) ==
    IF LowerText(s) = <<"t","r","u","e">> THEN TBool(TRUE)
    ELSE IF LowerText(s) = <<"f","a","l","s","e">> THEN TBool(FALSE)
    ELSE IF LowerText(s) = <<"n","u","l","l">> \/ s = <<"~">> \/ s = <<>> THEN TNull
    ELSE IF IsIntLiteral(s) THEN TInt(SignOf(s) * DigitsValue(Unsigned(s)))
    ELSE IF IsFloatLiteral(s) THEN FloatValue(s)
    ELSE TStr(s)

IsQuoted(s) == Len(s) >= 2 /\ s[1] = "\"" /\ s[Len(s)] = "\""

\* one item of a flow sequence: a quoted string, or a scalar literal
ItemType(s) ==
    IF IsQuoted(s) THEN TStr(Slice(s, 2, Len(s) - 1)) ELSE ScalarType(s)

\* the items of a comma-separated list, left to right
RECURSIVE SplitItems(_, _)
SplitItems(s, cur) ==
    IF s = <<>> THEN <<ItemType(Strip(cur))>>
    ELSE IF s[1] = "," THEN <<ItemType(Strip(cur))>> \o SplitItems(Slice(s, 2, Len(s)), <<>>)
    ELSE SplitItems(Slice(s, 2, Len(s)), Append(cur, s[1]))

IsFlowSeq(s) == Len(s) >= 2 /\ s[1] = "[" /\ s[Len(s)] = "]"

\* the natural type of a text: a flow sequence (a JSON list), or a scalar literal
NaturalType(s) ==
    IF IsFlowSeq(s)
    THEN LET inner == Strip(Slice(s, 2, Len(s) - 1)) IN
         IF inner = <<>> THEN TSeq(<<>>) ELSE TSeq(SplitItems(inner, <<>>))
    ELSE ScalarType(s)

(***************************************************************************)
(* resolve one string scalar, then a whole tree                             *)
(***************************************************************************)
\* the names a string scalar refers to that are absent and have no default
MissingInString(s, e) ==
    LET occ == Occurrences(s) IN
    {occ[i].name : i \in {j \in 1..Len(occ) : IsMissing(occ[j], e)}}

\* one occurrence that spans the whole string
IsWholeReference(s) ==
    LET occ == Occurrences(s) IN
    Len(occ) = 1 /\ occ[1].start = 1 /\ occ[1].end = Len(s)

\* SubstituteString that re-types whatever text comes out, reference or not
SubstituteStringAlwaysTyped(s, e) ==
    LET occ == Occurrences(s) IN
    IF occ = <<>> THEN NaturalType(s)
    ELSE NaturalType(Expand(s, occ, 1, e))

\* SubstituteString that never re-types: the substituted text stays a String
SubstituteStringNeverTyped(s, e) ==
    LET occ == Occurrences(s) IN
    IF occ = <<>> THEN TStr(s)
    ELSE TStr(Expand(s, occ, 1, e))

\* the value of a string scalar after substitution (no name missing)
SubstituteString(s, e) ==
    LET occ == Occurrences(s) IN
    IF occ = <<>> THEN TStr(s)
    ELSE IF IsWholeReference(s) THEN NaturalType(Replacement(occ[1], e))
    ELSE TStr(Expand(s, occ, 1, e))

\* the names of the references of a string scalar
NamesInString(s) ==
    LET occ == Occurrences(s) IN {occ[i].name : i \in 1..Len(occ)}

\* every name, at any depth of t, that resolve has to look up
RECURSIVE NamesIn(_)
NamesIn(t) ==
    CASE t.kind = "map" -> UNION {NamesIn(t.val[k]) : k \in DOMAIN t.val}
      [] t.kind = "seq" -> UNION {NamesIn(t.val[i]) : i \in DOMAIN t.val}
      [] t.kind = "str" -> NamesInString(t.val)
      [] OTHER          -> {}

\* every name, at any depth of t, that resolve would fail on
RECURSIVE MissingIn(_, _)
MissingIn(t, e) ==
    CASE t.kind = "map" -> UNION {MissingIn(t.val[k], e) : k \in DOMAIN t.val}
      [] t.kind = "seq" -> UNION {MissingIn(t.val[i], e) : i \in DOMAIN t.val}
      [] t.kind = "str" -> MissingInString(t.val, e)
      [] OTHER          -> {}

\* Resolve that re-types every string scalar it meets, reference or not
RECURSIVE ResolveRetypesScalars(_, _)
ResolveRetypesScalars(t, e) ==
    CASE t.kind = "map" -> TMap([k \in DOMAIN t.val |-> ResolveRetypesScalars(t.val[k], e)])
      [] t.kind = "seq" -> TSeq([i \in DOMAIN t.val |-> ResolveRetypesScalars(t.val[i], e)])
      [] t.kind = "str" -> SubstituteStringAlwaysTyped(t.val, e)
      [] OTHER          -> t

\* deep_substitute_env_vars(t) when no name is missing: depth first, mappings
\* and sequences rebuilt, non-string scalars passed through
RECURSIVE Resolve(_, _)
Resolve(t, e) ==
    CASE t.kind = "map" -> TMap([k \in DOMAIN t.val |-> Resolve(t.val[k], e)])
      [] t.kind = "seq" -> TSeq([i \in DOMAIN t.val |-> Resolve(t.val[i], e)])
      [] t.kind = "str" -> SubstituteString(t.val, e)
      [] OTHER          -> t

(***************************************************************************)
(* Errors and the outcome of one call                                      *)
(***************************************************************************)
NoError == [type |-> "", path |-> <<>>, cause |-> "", name |-> <<>>]

\* ConfigFileParsingError(file_path, e): the path and the underlying error
ConfigFileParsingError(path, cause, name) ==
    [type |-> "ConfigFileParsingError", path |-> path, cause |-> cause, name |-> name]

\* MissingEnvVarError(name)
MissingEnvVarError(name) ==
    [type |-> "MissingEnvVarError", path |-> <<>>, cause |-> "", name |-> name]

NoOutcome == [kind |-> "none", tree |-> TNull, error |-> NoError]
Returned(t) == [kind |-> "return", tree |-> t, error |-> NoError]
Raised(err) == [kind |-> "raise", tree |-> TNull, error |-> err]

(***************************************************************************)
(* Texts used by the inputs                                                *)
(***************************************************************************)
ExtYaml == <<".","y","a","m","l">>
ExtYml  == <<".","y","m","l">>
ExtToml == <<".","t","o","m","l">>

NameX == <<"X">>
NameY == <<"Y">>
RefX  == <<"$","{","X","}">>
RefY  == <<"$","{","Y","}">>
RefXDefault7 == <<"$","{","X",":","-","7","}">>

\* a path is a sequence of components; a component is a text
Top   == << <<"d">> >>
DirP  == << <<"d">>, <<"p">> >>
DirQ  == << <<"d">>, <<"q">> >>
Join(root, file) == Append(root, file)
Parent(path) == Slice(path, 1, Len(path) - 1)
BaseName(path) == path[Len(path)]

(***************************************************************************)
(* State                                                                   *)
(***************************************************************************)
VARIABLES
    frontend,   \* "yaml" or "toml": which settings source is called
    env,        \* os.environ: a function from names to values
    target,     \* self.yaml_file / self.toml_file: the configured path
    fs,         \* the file system: its directories and the content of its files
    pc,         \* position of the call: "start", "walk", "subst", "done"
    queue,      \* the files os.walk still has to yield, in order
    config,     \* the accumulator `config`
    parsed,     \* the files opened so far, in order
    outcome,    \* what the call returned or raised
    lookups,    \* the names the call has looked up in the environment
    history,    \* what the earlier calls on the same files did, oldest first
    given,      \* merge harness: the ordered list of trees T1..Tn
    operands,   \* merge harness: the list after some adjacent pairs were merged
    subject,    \* resolve harness: the tree handed to the substitution engine
    resolved    \* resolve harness: the outcomes of resolve, resolve o resolve

loadVars == <<frontend, target, fs, pc, queue, config, parsed, outcome, lookups, history>>
mergeVars == <<given, operands>>
resolveVars == <<subject, resolved>>
vars == <<frontend, env, target, fs, pc, queue, config, parsed, outcome,
          lookups, history, given, operands, subject, resolved>>

(***************************************************************************)
(* File system and the two loaders                                         *)
(***************************************************************************)
Parsable(t) == [state |-> "ok", tree |-> t]
Unparsable == [state |-> "unparsable", tree |-> TNull]
Unreadable == [state |-> "unreadable", tree |-> TNull]

IsDir(path) == path \in fs.dirs
IsFile(path) == path \in DOMAIN fs.files

\* the exception open() or the parser raises on a file, as the cause of the error
CauseOf(content) ==
    IF content.state = "unreadable" THEN "OSError" ELSE "ParseError"

\* LoadFile reporting the configured path instead of the file it failed on
LoadFileReportsTarget(path) ==
    LET content == fs.files[path] IN
    IF content.state # "ok"
    THEN [ok |-> FALSE, tree |-> TNull,
          error |-> ConfigFileParsingError(target, CauseOf(content), <<>>)]
    ELSE [ok |-> TRUE,
          tree |-> IF Falsy(content.tree) THEN EmptyMap ELSE content.tree,
          error |-> NoError]

\* _load_yaml_file / _load_toml_file: the parsed tree (`or {}`), or the error raised
LoadFile(path) ==
    LET content == fs.files[path] IN
    IF content.state # "ok"
    THEN [ok |-> FALSE, tree |-> TNull,
          error |-> ConfigFileParsingError(path, CauseOf(content), <<>>)]
    ELSE [ok |-> TRUE,
          tree |-> IF Falsy(content.tree) THEN EmptyMap ELSE content.tree,
          error |-> NoError]

\* file.endswith(".toml") / file.endswith((".yaml", ".yml"))
Contributes(fe, name) ==
    IF fe = "toml" THEN EndsWith(name, ExtToml)
    ELSE EndsWith(name, ExtYaml) \/ EndsWith(name, ExtYml)

\* Sorted in descending order, as sorted(files, reverse=True) would give
RECURSIVE SortedDescending(_)
SortedDescending(names) ==
    IF names = {} THEN <<>>
    ELSE LET most == CHOOSE n \in names : \A m \in names \ {n} : StrLess(m, n)
         IN  <<most>> \o SortedDescending(names \ {most})

\* sorted(files)
RECURSIVE Sorted(_)
Sorted(names) ==
    IF names = {} THEN <<>>
    ELSE LET least == CHOOSE n \in names : \A m \in names \ {n} : StrLess(n, m)
         IN  <<least>> \o Sorted(names \ {least})

FilesOf(dir) == {BaseName(f) : f \in {g \in DOMAIN fs.files : Parent(g) = dir}}
SubdirsOf(dir) == {d \in fs.dirs : Len(d) = Len(dir) + 1 /\ Parent(d) = dir}

\* the orders in which a directory listing may enumerate a set of entries
Orders(S) ==
    {o \in [1..Cardinality(S) -> S] : \A i, j \in 1..Cardinality(S) : o[i] = o[j] => i = j}

\* the paths one directory contributes: its file names sorted, joined to it
PathsOf(dir) ==
    LET names == Sorted(FilesOf(dir)) IN [i \in 1..Len(names) |-> Join(dir, names[i])]

\* os.walk(top), top down: top itself, then its subdirectories in listing order
RECURSIVE WalkDirs(_, _)
WalkDirs(order, i) ==
    IF i > Len(order) THEN <<>> ELSE PathsOf(order[i]) \o WalkDirs(order, i + 1)

Walk(top, order) == PathsOf(top) \o WalkDirs(order, 1)

\* MergeInto as an assignment, config = loaded: the last file replaces the rest
MergeIntoAssigns(acc, loaded) == loaded

\* always_merger.merge(config, loaded) as a statement: the value it returns is
\* dropped, so config changes only where merge() works in place, dict x dict
MergeInto(acc, loaded) ==
    IF IsMap(acc) /\ IsMap(loaded) THEN DeepMerge(acc, loaded) ELSE acc

(***************************************************************************)
(* Inputs: the environments, trees and directory layouts a call is run on  *)
(***************************************************************************)
\* most files a directory layout holds
MaxFiles == 2

\* most calls made on the same files
MaxCalls == 2

EnvPool == { <<>>, (NameX :> <<"5">>) }

Key(k, v) == TMap((k :> v))

\* the values files set under the key "a"
LeafPool ==
    { TStr(RefX), TInt(1), TInt(2),
      TSeq(<<TStr(RefX)>>), TSeq(<<TStr(<<"y">>)>>),
      Key("h", TStr(<<"v">>)), Key("h", TStr(<<"w">>)), Key("p", TInt(5432)) }

\* documents whose root is a mapping (all a TOML file can hold)
MappingDocs == {Key("a", l) : l \in LeafPool} \cup {Key("b", TStr(RefXDefault7))}

\* documents only YAML can hold: a sequence at the root, an empty document
YamlOnlyDocs == { TSeq(<<TStr(<<"y">>)>>), TNull }

Docs(fe) == IF fe = "yaml" THEN MappingDocs \cup YamlOnlyDocs ELSE MappingDocs

Contents(fe) == {Parsable(t) : t \in Docs(fe)} \cup {Unparsable, Unreadable}

\* documents used by single-file loads only: references deeper in the tree
DeepDocs(fe) ==
    { Key("a", Key("h", TSeq(<<TInt(1), TStr(RefX)>>))),
      Key("a", Key("h", TStr(RefY))) }
      \cup (IF fe = "yaml" THEN {TStr(RefX), TSeq(<<Key("a", TStr(RefX))>>)} ELSE {})

SingleContents(fe) == Contents(fe) \cup {Parsable(t) : t \in DeepDocs(fe)}

FileA(ext) == <<"a">> \o ext
FileB(ext) == <<"b">> \o ext
FileC(ext) == <<"c">> \o ext

\* the places a file may be at below the configured directory
PathPool ==
    { Join(Top, FileA(ExtYaml)), Join(Top, FileB(ExtYml)),
      Join(Top, FileA(ExtToml)), Join(Top, FileB(ExtToml)),
      Join(DirP, FileC(ExtYaml)), Join(DirQ, FileC(ExtYaml)),
      Join(DirP, FileC(ExtToml)), Join(DirQ, FileC(ExtToml)) }

\* the contents of the files at the places S: a file the front end skips is
\* never opened, so one content stands for all it could hold
LayoutsOn(fe, S) ==
    {l \in [S -> Contents("yaml")] :
        \A f \in S : IF Contributes(fe, BaseName(f))
                     THEN l[f] \in Contents(fe)
                     ELSE l[f] = Unparsable}

DirLayouts(fe) ==
    UNION {LayoutsOn(fe, S) : S \in {R \in SUBSET PathPool : Cardinality(R) <= MaxFiles}}

SingleFile(fe) == Join(Top, FileA(IF fe = "toml" THEN ExtToml ELSE ExtYaml))

HarnessIdle ==
    /\ given = <<>>
    /\ operands = <<>>
    /\ subject = TNull
    /\ resolved = <<>>

\* the state when __call__ is entered: config = {} (lines 37, 76)
Init ==
    /\ frontend \in {"yaml", "toml"}
    /\ env \in EnvPool
    /\ \/ \E l \in DirLayouts(frontend) :
             /\ target = Top
             /\ fs = [dirs |-> {Top} \cup {Parent(f) : f \in DOMAIN l}, files |-> l]
       \/ \E c \in SingleContents(frontend) :
             /\ target = SingleFile(frontend)
             /\ fs = [dirs |-> {Top}, files |-> (SingleFile(frontend) :> c)]
       \/ /\ target = Top
          /\ fs = [dirs |-> {}, files |-> <<>>]
    /\ pc = "start"
    /\ queue = <<>>
    /\ config = EmptyMap
    /\ parsed = <<>>
    /\ outcome = NoOutcome
    /\ lookups = {}
    /\ history = <<>>
    /\ HarnessIdle

(***************************************************************************)
(* __call__, one action per branch and per iteration of its loop           *)
(***************************************************************************)
AfterQueue(q) == IF q = <<>> THEN "subst" ELSE "walk"

\* os.path.isdir(path): os.walk lists the directory tree
WalkDirectory ==
    /\ pc = "start"
    /\ IsDir(target)
    /\ \E order \in Orders(SubdirsOf(target)) :
          /\ queue' = Walk(target, order)
          /\ pc' = AfterQueue(Walk(target, order))
    /\ UNCHANGED <<frontend, env, target, fs, config, parsed, outcome>>
    /\ UNCHANGED <<lookups, history, mergeVars, resolveVars>>

\* os.path.isfile(path): config = self._load_..._file(path)
LoadSingleFile ==
    /\ pc = "start"
    /\ ~IsDir(target)
    /\ IsFile(target)
    /\ LET r == LoadFile(target) IN
          /\ parsed' = Append(parsed, target)
          /\ IF r.ok
             THEN /\ config' = r.tree
                  /\ pc' = "subst"
                  /\ UNCHANGED outcome
             ELSE /\ outcome' = Raised(r.error)
                  /\ pc' = "done"
                  /\ UNCHANGED config
    /\ UNCHANGED <<frontend, env, target, fs, queue>>
    /\ UNCHANGED <<lookups, history, mergeVars, resolveVars>>

\* NoSuchPath opening the path all the same, which fails
NoSuchPathRaises ==
    /\ pc = "start"
    /\ ~IsDir(target)
    /\ ~IsFile(target)
    /\ outcome' = Raised(ConfigFileParsingError(target, "OSError", <<>>))
    /\ pc' = "done"
    /\ UNCHANGED <<frontend, env, target, fs, queue, config, parsed>>
    /\ UNCHANGED <<lookups, history, mergeVars, resolveVars>>

\* neither a directory nor a file: config stays {}
NoSuchPath ==
    /\ pc = "start"
    /\ ~IsDir(target)
    /\ ~IsFile(target)
    /\ pc' = "subst"
    /\ UNCHANGED <<frontend, env, target, fs, queue, config, parsed, outcome>>
    /\ UNCHANGED <<lookups, history, mergeVars, resolveVars>>

\* a file whose name has none of the suffixes is passed over
SkipFile ==
    /\ pc = "walk"
    /\ queue # <<>>
    /\ ~Contributes(frontend, BaseName(Head(queue)))
    /\ queue' = Tail(queue)
    /\ pc' = AfterQueue(Tail(queue))
    /\ UNCHANGED <<frontend, env, target, fs, config, parsed, outcome>>
    /\ UNCHANGED <<lookups, history, mergeVars, resolveVars>>

\* the except clauses of __call__ for a MissingEnvVarError: the YAML source
\* re-raises it, the TOML source raises ConfigFileParsingError(self.toml_file, e)
OnMissingEnvVar(fe, path, name) ==
    IF fe = "toml"
    THEN ConfigFileParsingError(path, "MissingEnvVarError", name)
    ELSE MissingEnvVarError(name)

\* MergeFile resolving the tree of each file as soon as it is loaded
MergeFileSubstitutesEarly ==
    /\ pc = "walk"
    /\ queue # <<>>
    /\ Contributes(frontend, BaseName(Head(queue)))
    /\ LET r == LoadFile(Head(queue)) IN
          /\ parsed' = Append(parsed, Head(queue))
          /\ IF ~r.ok
             THEN /\ outcome' = Raised(r.error)
                  /\ pc' = "done"
                  /\ UNCHANGED <<config, queue, lookups>>
             ELSE IF MissingIn(r.tree, env) # {}
             THEN /\ \E name \in MissingIn(r.tree, env) :
                        /\ outcome' = Raised(OnMissingEnvVar(frontend, target, name))
                        /\ lookups' = lookups \cup {name}
                  /\ pc' = "done"
                  /\ UNCHANGED <<config, queue>>
             ELSE /\ config' = MergeInto(config, Resolve(r.tree, env))
                  /\ lookups' = lookups \cup NamesIn(r.tree)
                  /\ queue' = Tail(queue)
                  /\ pc' = AfterQueue(Tail(queue))
                  /\ UNCHANGED outcome
    /\ UNCHANGED <<frontend, env, target, fs>>
    /\ UNCHANGED <<history, mergeVars, resolveVars>>

\* always_merger.merge(config, self._load_..._file(file_path))
MergeFile ==
    /\ pc = "walk"
    /\ queue # <<>>
    /\ Contributes(frontend, BaseName(Head(queue)))
    /\ LET r == LoadFile(Head(queue)) IN
          /\ parsed' = Append(parsed, Head(queue))
          /\ IF r.ok
             THEN /\ config' = MergeInto(config, r.tree)
                  /\ queue' = Tail(queue)
                  /\ pc' = AfterQueue(Tail(queue))
                  /\ UNCHANGED outcome
             ELSE /\ outcome' = Raised(r.error)
                  /\ pc' = "done"
                  /\ UNCHANGED <<config, queue>>
    /\ UNCHANGED <<frontend, env, target, fs>>
    /\ UNCHANGED <<lookups, history, mergeVars, resolveVars>>

\* return deep_substitute_env_vars(config)
Substitute ==
    /\ pc = "subst"
    /\ IF MissingIn(config, env) = {}
       THEN /\ outcome' = Returned(Resolve(config, env))
            /\ lookups' = NamesIn(config)
       ELSE \E name \in MissingIn(config, env) :
               /\ outcome' = Raised(OnMissingEnvVar(frontend, target, name))
               \* resolve stops at the first name it misses
               /\ \E seen \in SUBSET NamesIn(config) : lookups' = seen \cup {name}
    /\ pc' = "done"
    /\ UNCHANGED <<frontend, env, target, fs, queue, config, parsed>>
    /\ UNCHANGED <<history, mergeVars, resolveVars>>

\* what one finished call did: its result and the files it merged, in order
Done == [kind |-> outcome.kind, tree |-> outcome.tree, order |-> parsed]

\* the settings are constructed again: a new call on the same files and the
\* same environment, starting from config = {}
CallAgain ==
    /\ pc = "done"
    /\ Len(history) + 1 < MaxCalls
    /\ history' = Append(history, Done)
    /\ pc' = "start"
    /\ queue' = <<>>
    /\ config' = EmptyMap
    /\ parsed' = <<>>
    /\ outcome' = NoOutcome
    /\ lookups' = {}
    /\ UNCHANGED <<frontend, env, target, fs>>
    /\ UNCHANGED <<mergeVars, resolveVars>>

Next ==
    \/ WalkDirectory
    \/ LoadSingleFile
    \/ NoSuchPath
    \/ SkipFile
    \/ MergeFile
    \/ Substitute
    \/ CallAgain

Spec == Init /\ [][Next]_vars

(***************************************************************************)
(* Properties of a call                                                    *)
(***************************************************************************)
\* a file could not be read or parsed
LoadFailed == outcome.kind = "raise" /\ outcome.error.cause \in {"OSError", "ParseError"}

\* every file was loaded and a reference of the tree has no value and no default
MissingCase == pc = "done" /\ ~LoadFailed /\ MissingIn(config, env) # {}

\* C1: for both front ends, when the loaded tree holds a reference without
\* default to an absent variable, the call raises MissingEnvVarError itself
\* (not a ConfigFileParsingError around it) and returns no tree.
C1_MissingVarUnwrapped ==
    MissingCase =>
        /\ outcome.kind = "raise"
        /\ outcome.error.type = "MissingEnvVarError"
        /\ outcome.error.name \in MissingIn(config, env)
        /\ outcome.tree = TNull

\* C2: when reading or parsing a contributing file fails, the call raises
\* ConfigFileParsingError with the path of that file and the underlying error,
\* no later file is opened and no tree is returned.
C2_ParseErrorStopsLoad ==
    \A i \in 1..Len(parsed) :
        fs.files[parsed[i]].state # "ok" =>
            /\ i = Len(parsed)
            /\ pc = "done"
            /\ outcome.kind = "raise"
            /\ outcome.tree = TNull
            /\ outcome.error.type = "ConfigFileParsingError"
            /\ outcome.error.path = parsed[i]
            /\ outcome.error.cause = CauseOf(fs.files[parsed[i]])
            /\ (IsDir(target) => outcome.error.path # target)

\* a directory load failed on a file while a later contributing file was waiting
C2_Witness ==
    /\ pc = "done"
    /\ IsDir(target)
    /\ LoadFailed
    /\ Len(queue) >= 2
    /\ Contributes(frontend, BaseName(queue[2]))
    /\ fs.files[queue[2]].state = "ok"

\* the tree a file contributes (`or {}`)
DocOf(f) == IF Falsy(fs.files[f].tree) THEN EmptyMap ELSE fs.files[f].tree
KeysOf(t) == IF IsMap(t) THEN DOMAIN t.val ELSE {}
IsScalar(t) == ~IsMap(t) /\ ~IsList(t)

\* res holds every key only one of t1, t2 sets, and the value of t2 where both
\* set different scalars; nested mappings likewise, key by key
RECURSIVE MergedByKey(_, _, _)
MergedByKey(t1, t2, res) ==
    /\ IsMap(res)
    /\ \A k \in KeysOf(t1) \ KeysOf(t2) : k \in DOMAIN res.val /\ res.val[k] = t1.val[k]
    /\ \A k \in KeysOf(t2) \ KeysOf(t1) : k \in DOMAIN res.val /\ res.val[k] = t2.val[k]
    /\ \A k \in KeysOf(t1) \cap KeysOf(t2) :
          /\ k \in DOMAIN res.val
          /\ (IsScalar(t1.val[k]) /\ IsScalar(t2.val[k])) => res.val[k] = t2.val[k]
          /\ (IsMap(t1.val[k]) /\ IsMap(t2.val[k])) =>
                MergedByKey(t1.val[k], t2.val[k], res.val[k])

\* exactly two files of one directory contributed and both were merged
TwoFilesMerged ==
    /\ IsDir(target)
    /\ pc \in {"subst", "done"}
    /\ ~LoadFailed
    /\ Len(parsed) = 2
    /\ Parent(parsed[1]) = Parent(parsed[2])

EarlierOf(f, g) == IF StrLess(BaseName(f), BaseName(g)) THEN f ELSE g
LaterOf(f, g) == IF StrLess(BaseName(f), BaseName(g)) THEN g ELSE f

\* C3: when two files of one directory are merged, every key only one of them
\* sets is in the merged tree, nested mappings are merged by key, and where
\* both set different scalars the lexicographically later file name wins.
C3_DirectoryMergeOrdering ==
    TwoFilesMerged =>
        MergedByKey(DocOf(EarlierOf(parsed[1], parsed[2])),
                    DocOf(LaterOf(parsed[1], parsed[2])), config)

\* two files of one directory set "a" to the scalars 1 and 2
C3_Witness ==
    /\ TwoFilesMerged
    /\ DocOf(EarlierOf(parsed[1], parsed[2])) = Key("a", TInt(2))
    /\ DocOf(LaterOf(parsed[1], parsed[2])) = Key("a", TInt(1))
    /\ config = Key("a", TInt(1))

\* the step that folds the tree of the next file into the accumulator
FoldStep == pc = "walk" /\ parsed' # parsed /\ pc' # "done"
Folded == DocOf(Head(queue))

\* neither mapping x mapping nor sequence x sequence
TypeConflict(a, b) == ~(IsMap(a) /\ IsMap(b)) /\ ~(IsList(a) /\ IsList(b))

\* res holds the new value wherever acc and new are in type conflict
RECURSIVE ReplacedAt(_, _, _)
ReplacedAt(acc, new, res) ==
    IF TypeConflict(acc, new) THEN res = new
    ELSE IF IsMap(acc) /\ IsMap(new)
    THEN /\ IsMap(res)
         /\ \A k \in DOMAIN acc.val \cap DOMAIN new.val :
               k \in DOMAIN res.val /\ ReplacedAt(acc.val[k], new.val[k], res.val[k])
    ELSE TRUE

\* C5: when a file's tree is folded into the accumulator, the new value fully
\* replaces the accumulator's value at every position where the two are in
\* type conflict, the root of the tree included.
C5_TypeConflictReplaces ==
    [][FoldStep => ReplacedAt(config, Folded, config')]_vars

\* res holds, wherever acc and new both hold a sequence under the same key,
\* the sequence of acc followed by the elements of new
RECURSIVE ConcatenatedAt(_, _, _)
ConcatenatedAt(acc, new, res) ==
    IF IsMap(acc) /\ IsMap(new)
    THEN /\ IsMap(res)
         /\ \A k \in DOMAIN acc.val \cap DOMAIN new.val :
               /\ k \in DOMAIN res.val
               /\ (IsList(acc.val[k]) /\ IsList(new.val[k])) =>
                     /\ IsList(res.val[k])
                     /\ res.val[k].val = acc.val[k].val \o new.val[k].val
               /\ ConcatenatedAt(acc.val[k], new.val[k], res.val[k])
    ELSE TRUE

\* C6: when the accumulator and the new file's tree both hold a sequence at
\* the same key, the merged value is the accumulator's sequence followed by
\* the elements of the new one, in order.
C6_ListConcatenation ==
    [][FoldStep => ConcatenatedAt(config, Folded, config')]_vars

\* {a: [${X}]} then {a: [y]} were merged: a is [${X}, y]
C6_Witness ==
    /\ TwoFilesMerged
    /\ DocOf(parsed[1]) = Key("a", TSeq(<<TStr(RefX)>>))
    /\ DocOf(parsed[2]) = Key("a", TSeq(<<TStr(<<"y">>)>>))
    /\ config = Key("a", TSeq(<<TStr(RefX), TStr(<<"y">>)>>))

\* C10: when the configured path is neither a file nor a directory, the call
\* returns an empty mapping and raises nothing, for both front ends and
\* whatever the environment holds.
C10_MissingPathIsEmpty ==
    (pc = "done" /\ ~IsDir(target) /\ ~IsFile(target)) => outcome = Returned(EmptyMap)

\* the TOML source was called on a path that does not exist, X being set
C10_Witness ==
    /\ pc = "done"
    /\ ~IsDir(target)
    /\ ~IsFile(target)
    /\ frontend = "toml"
    /\ IsSet(env, NameX)
    /\ outcome.kind = "return"

(***************************************************************************)
(* The merge on its own: an ordered list of trees is merged pair by pair,   *)
(* any adjacent pair first, which gives every association of the list.      *)
(***************************************************************************)
\* most trees in the list
MaxTrees == 3

MergePool ==
    { TInt(1), TStr(<<"v">>), TSeq(<<TStr(<<"x">>)>>), TSeq(<<TStr(<<"y">>)>>),
      EmptyMap, Key("b", TInt(1)),
      Key("a", TInt(1)), Key("a", TInt(2)),
      Key("a", TSeq(<<TStr(<<"x">>)>>)), Key("a", TSeq(<<TStr(<<"y">>)>>)),
      Key("a", Key("h", TStr(<<"v">>))), Key("a", Key("p", TInt(5432))),
      Key("a", Key("h", TSeq(<<TStr(<<"x">>)>>))) }

LoadIdle ==
    /\ frontend = "yaml"
    /\ target = Top
    /\ fs = [dirs |-> {}, files |-> <<>>]
    /\ pc = "idle"
    /\ queue = <<>>
    /\ config = EmptyMap
    /\ parsed = <<>>
    /\ outcome = NoOutcome
    /\ lookups = {}
    /\ history = <<>>

InitMerge ==
    /\ \E n \in 1..MaxTrees : given \in [1..n -> MergePool]
    /\ operands = given
    /\ env = <<>>
    /\ subject = TNull
    /\ resolved = <<>>
    /\ LoadIdle

\* always_merger.merge(a, b) applied to two neighbours of the list
MergeAdjacent ==
    /\ \E i \in 1..(Len(operands) - 1) :
          operands' = [j \in 1..(Len(operands) - 1) |->
                          IF j < i THEN operands[j]
                          ELSE IF j = i THEN DeepMerge(operands[i], operands[i + 1])
                          ELSE operands[j + 1]]
    /\ UNCHANGED <<given, env, loadVars, resolveVars>>

NextMerge == MergeAdjacent

SpecMerge == InitMerge /\ [][NextMerge]_vars

\* the trees merged left to right: merge(...merge(merge(T1, T2), T3)..., Tn)
RECURSIVE LeftFold(_)
LeftFold(ts) ==
    IF Len(ts) = 1 THEN ts[1]
    ELSE DeepMerge(LeftFold(Slice(ts, 1, Len(ts) - 1)), ts[Len(ts)])

\* C4 as stated: for any ordered list of trees, trees whose values at the same
\* position differ in type included, every association that keeps the order
\* gives the tree that merging left to right gives.
C4_MergeAssociative == LeftFold(operands) = LeftFold(given)

\* a and b hold values of the same kind (mapping, sequence, scalar) wherever
\* both hold a value
RECURSIVE SameKinds(_, _)
SameKinds(a, b) ==
    \/ IsMap(a) /\ IsMap(b)
         /\ \A k \in DOMAIN a.val \cap DOMAIN b.val : SameKinds(a.val[k], b.val[k])
    \/ IsList(a) /\ IsList(b)
    \/ IsScalar(a) /\ IsScalar(b)

KindCompatible(ts) == \A i, j \in 1..Len(ts) : SameKinds(ts[i], ts[j])

\* C4 as amended: for an ordered list of trees whose values at the same
\* position are of the same kind, every association that keeps the order gives
\* the tree that merging left to right gives.
C4_MergeAssociativeSameKinds ==
    KindCompatible(given) => LeftFold(operands) = LeftFold(given)

\* T2 and T3 of three kind-compatible trees were merged first, and the merge
\* changed both
C4_Witness ==
    /\ Len(given) = 3
    /\ KindCompatible(given)
    /\ Len(operands) = 2
    /\ operands[1] = given[1]
    /\ operands[2] = Key("a", TSeq(<<TStr(<<"x">>), TStr(<<"y">>)>>))
    /\ given[1] = Key("a", TSeq(<<TStr(<<"y">>)>>))

(***************************************************************************)
(* The substitution engine on its own: resolve is applied to a tree, and    *)
(* again to what it returned.                                               *)
(***************************************************************************)
\* most times resolve is applied in a row
MaxResolves == 2

\* a string scalar is written as its parts: literal text and references
Lit(text) == [ref |-> FALSE, text |-> text, name |-> <<>>, hasDefault |-> FALSE]
Ref(name) == [ref |-> TRUE, text |-> <<>>, name |-> name, hasDefault |-> FALSE]
RefOr(name, default) == [ref |-> TRUE, text |-> default, name |-> name, hasDefault |-> TRUE]

\* the text of one part as it stands in the file
RenderPart(part) ==
    IF ~part.ref THEN part.text
    ELSE IF part.hasDefault
    THEN <<"$", "{">> \o part.name \o <<":", "-">> \o part.text \o <<"}">>
    ELSE <<"$", "{">> \o part.name \o <<"}">>

RECURSIVE Render(_)
Render(parts) ==
    IF parts = <<>> THEN <<>> ELSE RenderPart(Head(parts)) \o Render(Tail(parts))

Text5432  == <<"5","4","3","2">>
TextFalse == <<"f","a","l","s","e">>
TextTrue  == <<"T","r","u","e">>
Text30p5  == <<"3","0",".","5">>
TextVer   == <<"1",".","0",".","0">>
TextList  == <<"[","\"","a","\"",","," ","\"","b","\"","]">>

\* strings that are one reference and nothing else
WholeTemplates ==
    { <<Ref(NameX)>>, <<RefOr(NameX, Text5432)>>, <<RefOr(NameX, TextFalse)>>,
      <<RefOr(NameX, <<"v">>)>>, <<RefOr(NameX, <<>>)>> }

\* strings with a reference next to literal text, or with several references
MixedTemplates ==
    { <<Lit(<<"p","-">>), Ref(NameX), Lit(<<"-","s">>)>>,
      <<Lit(<<"1">>), Ref(NameX)>>,
      <<RefOr(NameX, <<"7">>), Lit(<<"0">>)>>,
      <<Ref(NameX), Ref(NameX)>>,
      <<Ref(NameX), RefOr(NameY, <<"1">>)>>,
      <<Ref(NameX), Lit(<<" ">>)>> }

\* strings without a reference: literals, and a "${" that is never closed
PlainTemplates ==
    { <<Lit(Text5432)>>, <<Lit(TextTrue)>>, <<Lit(<<"v">>)>>, <<Lit(<<>>)>>,
      <<Lit(<<"$","{","X">>)>>, <<Lit(<<"$","X","}">>)>>, <<Lit(TextList)>> }

Templates == WholeTemplates \cup MixedTemplates \cup PlainTemplates

\* where the string stands: alone, under a key, in a sequence under a key
Shapes == {"scalar", "map", "seq"}
Shape(sh, leaf) ==
    IF sh = "map" THEN Key("k", leaf)
    ELSE IF sh = "seq" THEN Key("k", TSeq(<<TInt(1), leaf>>))
    ELSE leaf

\* trees without any string to substitute
OtherSubjects == { TInt(7), Key("k", TBool(TRUE)), TSeq(<<TNull, TFloat(5, 1)>>), EmptyMap }

ResolveSubjects ==
    {Shape(sh, TStr(Render(tpl))) : sh \in Shapes, tpl \in Templates} \cup OtherSubjects

ResolveEnvs ==
    { <<>>, (NameX :> <<"5">>), (NameX :> Text30p5), (NameX :> TextTrue),
      (NameX :> <<"v">>), (NameX :> TextVer), (NameX :> TextList),
      (NameX :> <<"5">>) @@ (NameY :> <<"6">>) }

InitResolve ==
    /\ subject \in ResolveSubjects
    /\ env \in ResolveEnvs
    /\ resolved = <<>>
    /\ given = <<>>
    /\ operands = <<>>
    /\ LoadIdle

\* what deep_substitute_env_vars(t) returns or raises
ResolveOutcomes(t, e) ==
    IF MissingIn(t, e) = {}
    THEN {Returned(Resolve(t, e))}
    ELSE {Raised(MissingEnvVarError(name)) : name \in MissingIn(t, e)}

\* resolve applied to the subject, or to the tree the last resolve returned
ResolveStep ==
    /\ Len(resolved) < MaxResolves
    /\ resolved # <<>> => resolved[Len(resolved)].kind = "return"
    /\ \E o \in ResolveOutcomes(IF resolved = <<>> THEN subject
                                ELSE resolved[Len(resolved)].tree, env) :
          resolved' = Append(resolved, o)
    /\ UNCHANGED <<subject, env, loadVars, mergeVars>>

NextResolve == ResolveStep

SpecResolve == InitResolve /\ [][NextResolve]_vars

\* the text a reference part is replaced by: the value, else the default
ValueOf(part, e) ==
    IF ~part.ref THEN part.text
    ELSE IF IsSet(e, part.name) THEN e[part.name] ELSE part.text

RECURSIVE Concatenated(_, _)
Concatenated(parts, e) ==
    IF parts = <<>> THEN <<>>
    ELSE ValueOf(Head(parts), e) \o Concatenated(Tail(parts), e)

\* every reference of the parts has a value or a default
Resolvable(parts, e) ==
    \A i \in 1..Len(parts) :
        parts[i].ref => (IsSet(e, parts[i].name) \/ parts[i].hasDefault)

\* the typed value of the texts used here, as the claim reads them: booleans,
\* null and numbers are typed, any other text stays a String
ClaimedType(text) ==
    CASE text = Text5432  -> TInt(5432)
      [] text = <<"5">>   -> TInt(5)
      [] text = Text30p5  -> TFloat(305, 1)
      [] text = TextFalse -> TBool(FALSE)
      [] text = TextTrue  -> TBool(TRUE)
      [] text = <<>>      -> TNull
      [] OTHER            -> TStr(text)

\* the same, a JSON list being read as the Sequence of its items
ListAwareType(text) ==
    IF text = TextList THEN TSeq(<<TStr(<<"a">>), TStr(<<"b">>)>>) ELSE ClaimedType(text)

C8_MixedTextStaysString ==
    \A sh \in Shapes : \A tpl \in MixedTemplates :
        (/\ subject = Shape(sh, TStr(Render(tpl)))
         /\ Resolvable(tpl, env)
         /\ resolved # <<>>)
        => resolved[1] = Returned(Shape(sh, TStr(Concatenated(tpl, env))))

\* 1${X} with X = 5 resolved to the String "15"
C8_Witness ==
    /\ subject = Key("k", TStr(Render(<<Lit(<<"1">>), Ref(NameX)>>)))
    /\ IsSet(env, NameX)
    /\ env[NameX] = <<"5">>
    /\ resolved # <<>>
    /\ resolved[1] = Returned(Key("k", TStr(<<"1", "5">>)))

\* the text holds "${" and, somewhere after it, "}"
HasReferenceShape(s) ==
    \E i, j \in 1..Len(s) : i + 1 < j /\ s[i] = "$" /\ s[i + 1] = "{" /\ s[j] = "}"

RECURSIVE ReferenceFree(_)
ReferenceFree(t) ==
    CASE t.kind = "map" -> \A k \in DOMAIN t.val : ReferenceFree(t.val[k])
      [] t.kind = "seq" -> \A i \in DOMAIN t.val : ReferenceFree(t.val[i])
      [] t.kind = "str" -> ~HasReferenceShape(t.val)
      [] OTHER          -> TRUE

\* C9: for a tree without any ${...} in its strings resolve is a no-op fixed
\* point, resolve(resolve(T)) = resolve(T) = T, every scalar keeping value and
\* type, whatever the environment holds.
C9_ResolveFixedPoint ==
    ReferenceFree(subject) =>
        \A i \in 1..Len(resolved) : resolved[i] = Returned(subject)

\* the literal string "5432" was resolved twice while X was set
C9_Witness ==
    /\ subject = Key("k", TStr(Text5432))
    /\ IsSet(env, NameX)
    /\ Len(resolved) = 2
    /\ resolved[2] = Returned(subject)

(***************************************************************************)
(* Properties of several calls and of the order of the steps of one call    *)
(***************************************************************************)
\* C11: for fixed files and a fixed environment two calls return the same
\* tree, and merge the contributing files in the same order, whatever the
\* order in which the file system lists the entries of a directory.
C11_DeterministicMergeOrder ==
    pc = "done" =>
        \A i \in 1..Len(history) :
            /\ history[i].kind = outcome.kind
            /\ history[i].tree = outcome.tree
            /\ history[i].order = parsed

\* the call merged exactly two files, parsed[1] first, both with a mapping at
\* the root, and went on to substitute
TwoMappingsMerged ==
    /\ IsDir(target)
    /\ pc = "done"
    /\ ~LoadFailed
    /\ Len(parsed) = 2
    /\ IsMap(DocOf(parsed[1]))
    /\ IsMap(DocOf(parsed[2]))

\* the names still referred to once new is folded into acc: those of new, and
\* those of acc at the positions new does not replace
RECURSIVE RemainingNames(_, _)
RemainingNames(acc, new) ==
    IF TypeConflict(acc, new) THEN NamesIn(new)
    ELSE IF IsMap(acc) /\ IsMap(new)
    THEN UNION {IF k \notin DOMAIN new.val THEN NamesIn(acc.val[k])
                ELSE IF k \notin DOMAIN acc.val THEN NamesIn(new.val[k])
                ELSE RemainingNames(acc.val[k], new.val[k]) :
                    k \in DOMAIN acc.val \cup DOMAIN new.val}
    ELSE NamesIn(acc) \cup NamesIn(new)

\* the keys under which both files hold a sequence
BothLists(a, b) ==
    {k \in DOMAIN a.val \cap DOMAIN b.val : IsList(a.val[k]) /\ IsList(b.val[k])}

\* the names that are absent and without default at a reference that is still
\* there once new is folded into acc
RECURSIVE RemainingMissing(_, _, _)
RemainingMissing(acc, new, e) ==
    IF TypeConflict(acc, new) THEN MissingIn(new, e)
    ELSE IF IsMap(acc) /\ IsMap(new)
    THEN UNION {IF k \notin DOMAIN new.val THEN MissingIn(acc.val[k], e)
                ELSE IF k \notin DOMAIN acc.val THEN MissingIn(new.val[k], e)
                ELSE RemainingMissing(acc.val[k], new.val[k], e) :
                    k \in DOMAIN acc.val \cup DOMAIN new.val}
    ELSE MissingIn(acc, e) \cup MissingIn(new, e)

\* C12: substitution runs once, on the merged tree, after all files are
\* merged.  A reference of an earlier file at a position a later file replaces
\* is never looked up, so the call succeeds even when its name is absent; a
\* reference in a sequence of the earlier file that the later file extends is
\* still resolved.
C12_SubstitutionAfterMerge ==
    /\ lookups # {} => (pc = "done" /\ queue = <<>> /\ ~LoadFailed)
    /\ TwoMappingsMerged =>
          LET d1 == DocOf(parsed[1])
              d2 == DocOf(parsed[2])
              missing == RemainingMissing(d1, d2, env)
          IN  /\ lookups \subseteq RemainingNames(d1, d2)
              /\ missing = {} => outcome.kind = "return" /\ lookups = RemainingNames(d1, d2)
              /\ missing # {} => outcome.kind = "raise" /\ outcome.error.name \in missing
              /\ \A k \in BothLists(d1, d2) :
                    /\ MissingIn(d1.val[k], env) # {} => outcome.kind = "raise"
                    /\ outcome.kind = "return" =>
                          /\ NamesIn(d1.val[k]) \subseteq lookups
                          /\ outcome.tree.val[k] =
                                TSeq(Resolve(d1.val[k], env).val \o Resolve(d2.val[k], env).val)

\* {a: ${X}} then {a: 1} were merged and X is absent: the call returned {a: 1}
\* and looked nothing up
C12_Witness ==
    /\ TwoMappingsMerged
    /\ DocOf(parsed[1]) = Key("a", TStr(RefX))
    /\ DocOf(parsed[2]) = Key("a", TInt(1))
    /\ ~IsSet(env, NameX)
    /\ outcome = Returned(Key("a", TInt(1)))
    /\ lookups = {}

\* the contributing files of the directory that cannot be read or parsed
BrokenFiles ==
    {f \in DOMAIN fs.files :
        Contributes(frontend, BaseName(f)) /\ fs.files[f].state # "ok"}

\* C13: every contributing file is read and parsed before any environment
\* variable is looked up: when a contributing file of the directory cannot be
\* parsed, the call fails with the ConfigFileParsingError of that file and
\* never with a missing-variable error, whichever file holds a reference to
\* an absent variable.
C13_ParseErrorBeforeLookup ==
    /\ (pc # "done" \/ LoadFailed) => lookups = {}
    /\ (IsDir(target) /\ pc = "done" /\ BrokenFiles # {}) =>
          /\ outcome.kind = "raise"
          /\ outcome.error.type = "ConfigFileParsingError"
          /\ outcome.error.path \in BrokenFiles
          /\ outcome.error.cause = CauseOf(fs.files[outcome.error.path])
          /\ outcome.error.name = <<>>

\* the earlier file holds a reference to the absent X, the later file cannot
\* be parsed: the call failed on the later file
C13_Witness ==
    /\ IsDir(target)
    /\ pc = "done"
    /\ Len(parsed) = 2
    /\ MissingIn(DocOf(parsed[1]), env) # {}
    /\ fs.files[parsed[2]].state = "unparsable"
    /\ outcome.error.path = parsed[2]
    /\ outcome.error.cause = "ParseError"

====
